---- MODULE Spec2Model ----
(***************************************************************************)
(* The Route Manager of the CDN service broker (models package) and the    *)
(* CloudFront wrapper it drives (utils/cloudfront.go).                     *)
(*                                                                         *)
(* Callers run on a fixed set of threads.  Every thread holds at most one  *)
(* invocation of the RouteManager; an invocation advances one blocking     *)
(* call (CDN, IAM, ACME, DNS, Store) at a time, and the threads interleave *)
(* freely: RouteManager holds no lock (part_000:85-90).                    *)
(***************************************************************************)
EXTENDS Integers, Sequences, FiniteSets, TLC

\* ------------------------------------------------------------------ bounds
MaxDists == 2       \* CloudFront distributions ever created
MaxRoutes == 1      \* service instances the tenants of Spec ask for
MaxCerts == 2       \* certificates the ACME authority ever issues

\* ------------------------------------------------------ program constants
RenewWindow == 30   \* "expires < now() + interval '30 days'"

\* ------------------------------------------------------------ input sets
Procs       == {1, 2}
InstanceIds == {"inst-1"}
DomainExts  == {<<"a.example.com">>, <<"b.example.com", "c.example.com">>}
TenantDomains == {<<"b.example.com", "c.example.com">>}   \* what the tenants of Spec ask for
Origins     == {"origin.app"}
Paths       == {"/"}
Lifetimes   == {RenewWindow - 1}   \* days a fresh certificate is valid

\* ------------------------------------------------------------------ State
Provisioning   == "provisioning"
Provisioned    == "provisioned"
Deprovisioning == "deprovisioning"
Deprovisioned  == "deprovisioned"

\* The order of section 4.3 of the design: the position of a state in the lifecycle.
StateRank(s) ==
    CASE s = Provisioning   -> 1
      [] s = Provisioned    -> 2
      [] s = Deprovisioning -> 3
      [] s = Deprovisioned  -> 4

\* -------------------------------------------------------------- zero values
\* A PEM blob: the zero value is the empty byte slice.
NoPem == [serial |-> 0, notAfter |-> 0, wellFormed |-> FALSE]

\* Certificate{}: the zero value of a certificates row.
NoCertRow ==
    [ID |-> 0, RouteId |-> 0, Domain |-> "", CertURL |-> 0,
     Certificate |-> NoPem, Expires |-> 0]

\* acme.CertificateResource{}
NoResource == [Domain |-> "", CertURL |-> 0, Certificate |-> NoPem]

\* Route{}
NoRoute ==
    [ID |-> 0, InstanceId |-> "", State |-> "", DomainExternal |-> <<>>,
     DomainInternal |-> 0, DistId |-> 0, Origin |-> "", Path |-> "",
     Certificate |-> NoCertRow]

\* cloudfront.DistributionConfig{}: what of a distribution a caller can set.
NoConfig == [Enabled |-> FALSE, IAMCertificateId |-> 0, Aliases |-> <<>>]

\* No invocation returned in the last step.
NoReturn ==
    [proc |-> 0, op |-> "", arg |-> NoRoute, err |-> "", route |-> NoRoute,
     trace |-> <<>>]

\* ------------------------------------------------------------ pure helpers
\* Route.GetDomains: strings.Split(DomainExternal, ","); the comma-joined list is
\* kept as the sequence of its hostnames.
GetDomains(r) == r.DomainExternal

\* Certificate.Resource
Resource(c) == [Domain |-> c.Domain, CertURL |-> c.CertURL, Certificate |-> c.Certificate]

\* acme.GetPEMCertExpiration: the not-after of the leaf, or an error.
PEMExpirationErr(pem) == IF pem.wellFormed THEN "nil" ELSE "malformed PEM"
PEMExpiration(pem)    == IF pem.wellFormed THEN pem.notAfter ELSE 0

\* deployCertificate's two IAM names for a domain.
StagingAlias(domain) == <<domain, "-new">>
CanonicalAlias_staging(domain) == <<domain, "-new">>   \* next built with the format of prev
CanonicalAlias(domain) == <<domain, "">>
Aliases == {StagingAlias(d) : d \in DomainExts} \cup {CanonicalAlias(d) : d \in DomainExts}

SeqToSet(s) == {s[k] : k \in 1..Len(s)}

VARIABLES
    routes,     \* table routes: sequence of rows, primary key = position
    certs,      \* table certificates: sequence of rows, primary key = position
    dists,      \* CloudFront: sequence of distributions, Id = position
    iam,        \* IAM server certificates: alias -> certificate id (0: alias free)
    issued,     \* number of certificates the ACME authority has issued
    now,        \* the clock, in days (no run of the model is long enough for a day to pass)
    pc,         \* per thread: the blocking call its invocation is about to make
    op,         \* per thread: the RouteManager method it is in (or was last in)
    loc,        \* per thread: the locals of the invocation (r, certResource, ...)
    etag,       \* per thread: does the ETag it read still name the current config?
    seen,       \* the Route values callers have been handed by Create or Get
    trace,      \* per thread: collaborator calls of the invocation it is in
    done        \* the invocation that returned in the last step, if one did

vars == <<routes, seen, certs, dists, iam, issued, now, pc, op, loc, etag, trace, done>>

\* The locals of an invocation that has not assigned any.
NoLocals ==
    [r |-> NoRoute, certResource |-> NoResource, certRow |-> NoCertRow,
     certId |-> 0, routes |-> <<>>, config |-> NoConfig]

Init ==
    /\ routes = <<>>
    /\ certs = <<>>
    /\ dists = <<>>
    /\ iam = [a \in Aliases |-> 0]
    /\ issued = 0
    /\ now = 0
    /\ pc = [p \in Procs |-> "idle"]
    /\ op = [p \in Procs |-> ""]
    /\ loc = [p \in Procs |-> NoLocals]
    /\ etag = [p \in Procs |-> FALSE]
    /\ seen = {}
    /\ trace = [p \in Procs |-> <<>>]
    /\ done = NoReturn

\* ------------------------------------------------------- control plumbing
\* One collaborator call as the fakes of the design would record it.
Call(name, arg, err) == <<[call |-> name, arg |-> arg, err |-> err]>>

\* The invocation of thread p moves on to its next blocking call.
Advance(p, o, to, l, tr) ==
    /\ pc' = [pc EXCEPT ![p] = to]
    /\ op' = [op EXCEPT ![p] = o]
    /\ loc' = [loc EXCEPT ![p] = l]
    /\ trace' = [trace EXCEPT ![p] = tr]
    /\ done' = NoReturn

\* The invocation of thread p, called with the Route arg, returns (route, err);
\* tr is every collaborator call it made.
Return(p, o, arg, err, route, tr) ==
    /\ pc' = [pc EXCEPT ![p] = "idle"]
    /\ op' = [op EXCEPT ![p] = ""]
    /\ loc' = [loc EXCEPT ![p] = NoLocals]
    /\ trace' = [trace EXCEPT ![p] = <<>>]
    /\ done' = [proc |-> p, op |-> o, arg |-> arg, err |-> err, route |-> route,
                trace |-> tr]

\* A thread may start an invocation when it is in none.  Idle threads are
\* alike, so a call is picked up by the lowest of them.
InNone(p) == pc[p] = "idle"
Idle(p) == InNone(p) /\ \A q \in Procs : q < p => ~InNone(q)

\* The broker polls: every value a Route row takes is read by some caller (Get),
\* and a caller passes to Update, Disable or Renew a Route it was handed, at
\* that moment or any time later.
Handed(rows, returned) == seen \cup SeqToSet(rows) \cup returned

\* ------------------------------------------------------------------ Store
\* gorm Create on routes: INSERT; the unique index on instance_id rejects a
\* second row with the same InstanceId, and then the row gets no primary key.
InsertRoute(rows, row) ==
    IF \E k \in 1..Len(rows) : rows[k].InstanceId = row.InstanceId
    THEN rows
    ELSE Append(rows, [row EXCEPT !.ID = Len(rows) + 1])

\* The columns of a Route (Certificate is an association, not a column).
RouteRow(route) == [route EXCEPT !.Certificate = NoCertRow]

\* gorm Save on a Route: UPDATE of every column by primary key; INSERT when the
\* primary key is blank.
SaveRoute(rows, route) ==
    IF route.ID = 0 THEN InsertRoute(rows, RouteRow(route))
    ELSE [rows EXCEPT ![route.ID] = RouteRow(route)]

\* A Store that writes a Certificate with Create where the code calls Save.
SaveCert_insert(rows, row) == Append(rows, [row EXCEPT !.ID = Len(rows) + 1])

\* gorm Save on a Certificate: UPDATE by primary key; INSERT when it is blank.
SaveCert(rows, row) ==
    IF row.ID = 0 THEN Append(rows, [row EXCEPT !.ID = Len(rows) + 1])
    ELSE [rows EXCEPT ![row.ID] = row]

\* gorm Save on a Route also saves a non-blank has-one Certificate, with its
\* foreign key set to the Route's primary key.
SaveAssociation(rows, route) ==
    IF route.Certificate = NoCertRow \/ route.ID = 0 THEN rows
    ELSE SaveCert(rows, [route.Certificate EXCEPT !.RouteId = route.ID])

\* The certificates rows of a Route.
CertsOf(id) == {k \in 1..Len(certs) : certs[k].RouteId = id}

\* ------------------------------------------------------------- CloudFront
\* The distribution CreateDistributionWithTags hands back (fillDistributionConfig
\* sets Enabled; a new distribution is not yet deployed and has no IAM certificate).
NewDistribution(domains) ==
    [Status |-> "InProgress", Enabled |-> TRUE, IAMCertificateId |-> 0,
     Aliases |-> domains, Deleted |-> FALSE]

\* CloudFront refuses an alias (CNAME) that a live distribution already serves.
AliasTaken(domains) ==
    \E d \in 1..Len(dists) :
        ~dists[d].Deleted /\ SeqToSet(dists[d].Aliases) \cap SeqToSet(domains) /= {}

\* GetDistribution and GetDistributionConfig fail on an Id CloudFront does not have.
Missing(distId) == distId \notin 1..Len(dists) \/ dists[distId].Deleted

\* The DistributionConfig of distribution d, as GetDistributionConfig hands it out.
Config(d) ==
    [Enabled |-> d.Enabled, IAMCertificateId |-> d.IAMCertificateId, Aliases |-> d.Aliases]

\* Distribution d after an UpdateDistribution that was accepted: the config is
\* replaced as a whole by the one sent, and the change starts to roll out.
Configured(d, config) ==
    [d EXCEPT !.Enabled = config.Enabled, !.IAMCertificateId = config.IAMCertificateId,
              !.Aliases = config.Aliases, !.Status = "InProgress"]

\* A write of the config gives the distribution a new ETag: every ETag read
\* before it, by any thread, is stale from then on.
NewETag(distId) == [q \in Procs |-> IF loc[q].r.DistId = distId THEN FALSE ELSE etag[q]]

\* CloudFront finishes rolling out a change: InProgress becomes Deployed.
Propagate(d) ==
    /\ d \in 1..Len(dists)
    /\ ~dists[d].Deleted
    /\ dists[d].Status = "InProgress"
    /\ dists' = [dists EXCEPT ![d].Status = "Deployed"]
    /\ UNCHANGED <<routes, seen, certs, iam, issued, now, pc, op, loc, etag, trace>>
    /\ done' = NoReturn

\* ----------------------------------------------------------- RouteManager
\* Create, up to and including CloudFront.Create.
Create(p, instanceId, domain, origin, path) ==
    /\ Idle(p)
    /\ Len(dists) < MaxDists
    /\ UNCHANGED <<routes, seen, certs, iam, issued, now, etag>>
    /\ LET route == [NoRoute EXCEPT !.InstanceId = instanceId, !.State = Provisioning,
                                    !.DomainExternal = domain, !.Origin = origin,
                                    !.Path = path]
           id == Len(dists) + 1
       IN \E fail \in BOOLEAN :
            LET err == IF fail THEN "transient"
                       ELSE IF AliasTaken(GetDomains(route)) THEN "CNAMEAlreadyExists"
                       ELSE "nil"
                call == Call("CloudFront.Create", GetDomains(route), err)
            IN IF err /= "nil"
               THEN /\ UNCHANGED dists
                    /\ Return(p, "Create", route, err, NoRoute, call)
               ELSE /\ dists' = Append(dists, NewDistribution(GetDomains(route)))
                    /\ Advance(p, "Create", "Create.DB.Create",
                               [NoLocals EXCEPT !.r = [route EXCEPT !.DomainInternal = id,
                                                                    !.DistId = id]],
                               call)

\* What Create returns when the INSERT ended with err: m.DB.Create(&route) is
\* a statement of its own and its result is not looked at.
CreateErr(err) == "nil"

\* Create: m.DB.Create(&route); return route, nil.
Create_DB_Create(p) ==
    /\ pc[p] = "Create.DB.Create"
    /\ UNCHANGED <<certs, dists, iam, issued, now, etag>>
    /\ LET rows == InsertRoute(routes, RouteRow(loc[p].r))
           err == IF rows = routes THEN "conflict" ELSE "nil"
           route == IF err = "nil" THEN rows[Len(rows)] ELSE loc[p].r
       IN /\ routes' = rows
          /\ seen' = Handed(rows, {route})
          /\ Return(p, op[p], loc[p].r, CreateErr(err), route,
                    trace[p] \o Call("DB.Create", "routes", err))

\* m.DB.First(&route, Route{InstanceId: instanceId}): the row, or not found.
First(instanceId) ==
    IF \E k \in 1..Len(routes) : routes[k].InstanceId = instanceId
    THEN routes[CHOOSE k \in 1..Len(routes) : routes[k].InstanceId = instanceId]
    ELSE NoRoute

\* Get as a function of the Store.
GetRoute(instanceId) == First(instanceId)
GetErr(instanceId) ==
    IF First(instanceId) = NoRoute THEN "InstanceDoesNotExist" ELSE "nil"

Get(p, instanceId) ==
    /\ Idle(p)
    /\ UNCHANGED <<routes, seen, certs, dists, iam, issued, now, etag>>
    /\ Return(p, "Get", [NoRoute EXCEPT !.InstanceId = instanceId], GetErr(instanceId),
              GetRoute(instanceId), <<>>)

\* -------------------------------------------------------------- DNS probe
\* What the resolver may answer: an error, or a name (LookupCNAME returns the
\* canonical name with its trailing dot), or the addresses in some order.
CnameAnswers(r) ==
    { [err |-> TRUE,  cname |-> <<0, ".">>],
      [err |-> FALSE, cname |-> <<r.DomainInternal, ".">>],
      [err |-> FALSE, cname |-> <<0, ".">>] }          \* other.cdn.net.
InternalHostAnswers ==
    { [err |-> TRUE, hosts |-> <<>>], [err |-> FALSE, hosts |-> <<2, 1>>] }
ExternalHostAnswers ==
    { [err |-> TRUE, hosts |-> <<>>], [err |-> FALSE, hosts |-> <<1, 2>>],
      [err |-> FALSE, hosts |-> <<1>>] }

\* sort.Strings
Sorted(hosts) == SortSeq(hosts, LAMBDA x, y : x < y)

\* checkCNAME: every external domain has the CNAME "<DomainInternal>.".
checkCNAME(r, lookupCNAME) ==
    LET expects == <<r.DomainInternal, ".">>
    IN \A k \in 1..Len(GetDomains(r)) :
          LET a == lookupCNAME[GetDomains(r)[k]]
          IN ~(a.err \/ a.cname /= expects)

\* checkHosts: every external domain resolves to the addresses of DomainInternal.
checkHosts(r, internal, lookupHost) ==
    /\ ~internal.err
    /\ \A k \in 1..Len(GetDomains(r)) :
          LET a == lookupHost[GetDomains(r)[k]]
          IN ~a.err /\ Sorted(internal.hosts) = Sorted(a.hosts)

\* checkDistribution: CloudFront.Get succeeds and reports Deployed and Enabled.
checkDistribution(r, fail) ==
    /\ ~fail
    /\ ~Missing(r.DistId)
    /\ dists[r.DistId].Status = "Deployed" /\ dists[r.DistId].Enabled

\* What the two DNS checks may report for a Route, over all the answers the
\* resolver may give.
CnameOutcomes(r) ==
    { checkCNAME(r, lookupCNAME) :
        lookupCNAME \in [SeqToSet(GetDomains(r)) -> CnameAnswers(r)] }
HostsOutcomes(r) ==
    { checkHosts(r, hl[1], hl[2]) :
        hl \in InternalHostAnswers \X [SeqToSet(GetDomains(r)) -> ExternalHostAnswers] }

\* A gate that takes the CNAME check alone for the DNS side.
Gate_cnameOnly(cname, hosts, distribution) == cname /\ distribution

\* A gate that forgets checkDistribution.
Gate_dnsOnly(cname, hosts, distribution) == cname \/ hosts

\* The gate of updateProvisioning.
Gate(cname, hosts, distribution) == (cname \/ hosts) /\ distribution

\* The probes the gate runs, in order, each with what it reported: || and &&
\* evaluate their right operand only when the left one does not decide.
GateCalls(cname, hosts, distribution) ==
    Call("checkCNAME", cname, "nil")
    \o (IF cname THEN <<>> ELSE Call("checkHosts", hosts, "nil"))
    \o (IF cname \/ hosts THEN Call("checkDistribution", distribution, "nil") ELSE <<>>)

\* A switch that sends a Provisioned Route through updateProvisioning as well.
Dispatch_reprovision(state) ==
    CASE state \in {Provisioning, Provisioned} -> "updateProvisioning"
      [] state = Deprovisioning                -> "updateDeprovisioning"
      [] OTHER                                 -> "return"

\* Update: the switch on r.State.
Dispatch(state) ==
    CASE state = Provisioning   -> "updateProvisioning"
      [] state = Deprovisioning -> "updateDeprovisioning"
      [] OTHER                  -> "return"

\* Update on a Route in a state that needs no work.
Update_default(p, route) ==
    /\ Idle(p)
    /\ route \in seen
    /\ Dispatch(route.State) = "return"
    /\ UNCHANGED <<routes, seen, certs, dists, iam, issued, now, etag>>
    /\ Return(p, "Update", route, "nil", NoRoute, <<>>)

\* updateProvisioning once its three probes have answered.
Gated(p, route, cname, hosts, distribution) ==
    IF Gate(cname, hosts, distribution)
    THEN Advance(p, "Update", "Acme.ObtainCertificate", [NoLocals EXCEPT !.r = route],
                 GateCalls(cname, hosts, distribution))
    ELSE Return(p, "Update", route, "nil", NoRoute, GateCalls(cname, hosts, distribution))

\* checkDistribution is called only when one of the DNS checks passed.
GateDistribution(p, route, cname, hosts) ==
    IF cname \/ hosts
    THEN \E fail \in BOOLEAN : Gated(p, route, cname, hosts, checkDistribution(route, fail))
    ELSE Gated(p, route, cname, hosts, FALSE)

\* Update on a Provisioning Route: updateProvisioning evaluates the gate.
Update_updateProvisioning(p, route) ==
    /\ Idle(p)
    /\ route \in seen
    /\ Dispatch(route.State) = "updateProvisioning"
    /\ UNCHANGED <<routes, seen, certs, dists, iam, issued, now, etag>>
    /\ \E cname \in CnameOutcomes(route) :
         IF cname
         THEN GateDistribution(p, route, TRUE, FALSE)   \* checkHosts is not called
         ELSE \E hosts \in HostsOutcomes(route) : GateDistribution(p, route, FALSE, hosts)

\* The certificate the ACME authority issues next, for the given names.
Issue(domain, lifetime, wellFormed) ==
    [Domain |-> domain, CertURL |-> issued + 1,
     Certificate |-> [serial |-> issued + 1, notAfter |-> now + lifetime,
                      wellFormed |-> wellFormed]]

\* A sweep that stops at the first Route whose Renew fails.
Leave_abort(p, err, tr) ==
    IF op[p] = "RenewAll" /\ loc[p].routes /= <<>> /\ err = "nil"
    THEN Advance(p, op[p], "Renew.DB.Related",
                 [NoLocals EXCEPT !.r = Head(loc[p].routes),
                                  !.routes = Tail(loc[p].routes)], tr)
    ELSE Return(p, op[p], loc[p].r, IF op[p] = "RenewAll" THEN "nil" ELSE err, NoRoute, tr)

\* Where an invocation goes when a step of it ends with err: Update and Renew
\* return it; RenewAll drops what Renew returns and goes on with the next Route.
Leave(p, err, tr) ==
    IF op[p] = "RenewAll" /\ loc[p].routes /= <<>>
    THEN Advance(p, op[p], "Renew.DB.Related",
                 [NoLocals EXCEPT !.r = Head(loc[p].routes),
                                  !.routes = Tail(loc[p].routes)], tr)
    ELSE Return(p, op[p], loc[p].r, IF op[p] = "RenewAll" THEN "nil" ELSE err, NoRoute, tr)

\* A caller that logs the error of a failed call and reports success.
Fail_swallowed(p, name, arg, err) == Leave(p, "nil", trace[p] \o Call(name, arg, err))

\* A collaborator call of a running invocation failed with err.
Fail(p, name, arg, err) == Leave(p, err, trace[p] \o Call(name, arg, err))

\* provisionCert: m.Acme.ObtainCertificate(r.GetDomains()).
provisionCert_ObtainCertificate(p) ==
    /\ pc[p] = "Acme.ObtainCertificate"
    /\ UNCHANGED <<routes, seen, certs, dists, iam, now, etag>>
    /\ LET domains == GetDomains(loc[p].r)
       IN \/ /\ UNCHANGED issued
             /\ Fail(p, "Acme.ObtainCertificate", domains, "transient")
          \/ /\ issued < MaxCerts
             /\ issued' = issued + 1
             /\ \E lifetime \in Lifetimes, wellFormed \in BOOLEAN :
                  Advance(p, op[p], "Iam.UploadCertificate",
                          [loc[p] EXCEPT !.certResource =
                               Issue(Head(domains), lifetime, wellFormed)],
                          trace[p] \o Call("Acme.ObtainCertificate", domains, "nil"))

\* -------------------------------------------------------------------- IAM
\* UploadCertificate(alias, cert): the alias must be free; the certificate id.
UploadErr(alias) == IF iam[alias] /= 0 THEN "EntityAlreadyExists" ELSE "nil"
Uploaded(alias, cert) == [iam EXCEPT ![alias] = cert.Certificate.serial]

\* RenameCertificate(prev, next): next names what prev named, whatever next
\* named before is gone, and prev is free; an alias already renamed is accepted.
RenameErr(prev, next) ==
    IF iam[prev] = 0 /\ iam[next] = 0 THEN "NoSuchEntity" ELSE "nil"
Renamed(prev, next) ==
    IF iam[prev] = 0 THEN iam ELSE [iam EXCEPT ![next] = iam[prev], ![prev] = 0]

\* DeleteCertificate(alias, false): the alias must exist.
DeleteErr(alias) == IF iam[alias] = 0 THEN "NoSuchEntity" ELSE "nil"
Deleted(alias) == [iam EXCEPT ![alias] = 0]

\* ------------------------------------------------------ deployCertificate
\* A deployCertificate that renames before it binds.
DeployNext_renameFirst(step) ==
    CASE step = "Iam.UploadCertificate"      -> "Iam.RenameCertificate"
      [] step = "Iam.RenameCertificate"      -> "CloudFront.SetCertificate"
      [] step = "CloudFront.SetCertificate"  -> "deployed"

\* The order of deployCertificate: the call that follows each call that succeeded.
DeployNext(step) ==
    CASE step = "Iam.UploadCertificate"      -> "CloudFront.SetCertificate"
      [] step = "CloudFront.SetCertificate"  -> "Iam.RenameCertificate"
      [] step = "Iam.RenameCertificate"      -> "deployed"

\* A caller that drops the error of acme.GetPEMCertExpiration.
Deployed_unparsed(p, tr) ==
    LET pem == loc[p].certResource.Certificate
        calls == tr \o Call("acme.GetPEMCertExpiration", pem.serial, PEMExpirationErr(pem))
    IN Advance(p, op[p],
               IF op[p] = "Update" THEN "updateProvisioning.DB.Create" ELSE "Renew.DB.Save",
               loc[p], calls)

\* What the caller of deployCertificate does when it returned nil:
\* acme.GetPEMCertExpiration and, if that fails, return its error; else the Store.
Deployed(p, tr) ==
    LET pem == loc[p].certResource.Certificate
        err == PEMExpirationErr(pem)
        calls == tr \o Call("acme.GetPEMCertExpiration", pem.serial, err)
    IN IF err /= "nil" THEN Leave(p, err, calls)
       ELSE Advance(p, op[p],
                    IF op[p] = "Update" THEN "updateProvisioning.DB.Create"
                    ELSE "Renew.DB.Save",
                    loc[p], calls)

\* A call of deployCertificate succeeded: on to the next, or back to the caller.
Deploy(p, step, l, tr) ==
    IF DeployNext(step) = "deployed" THEN Deployed(p, tr)
    ELSE Advance(p, op[p], DeployNext(step), l, tr)

\* certId, err := m.Iam.UploadCertificate(prev, cert)
deployCertificate_UploadCertificate(p) ==
    /\ pc[p] = "Iam.UploadCertificate"
    /\ UNCHANGED <<routes, seen, certs, dists, issued, now, etag>>
    /\ LET prev == StagingAlias(loc[p].r.DomainExternal)
           id == loc[p].certResource.Certificate.serial
       IN \E fail \in BOOLEAN :
            LET err == IF fail THEN "transient" ELSE UploadErr(prev)
            IN IF err /= "nil"
               THEN /\ UNCHANGED iam
                    /\ Fail(p, "Iam.UploadCertificate", <<prev, 0>>, err)
               ELSE /\ iam' = Uploaded(prev, loc[p].certResource)
                    /\ Deploy(p, "Iam.UploadCertificate", [loc[p] EXCEPT !.certId = id],
                              trace[p] \o Call("Iam.UploadCertificate", <<prev, id>>, "nil"))

\* SetCertificate: GetDistributionConfig hands out the config and its ETag.
SetCertificate_GetDistributionConfig(p) ==
    /\ pc[p] = "CloudFront.SetCertificate"
    /\ UNCHANGED <<routes, seen, certs, dists, iam, issued, now>>
    /\ LET distId == loc[p].r.DistId
       IN \E fail \in BOOLEAN :
            LET err == IF fail THEN "transient"
                       ELSE IF Missing(distId) THEN "NoSuchDistribution" ELSE "nil"
            IN IF err /= "nil"
               THEN /\ UNCHANGED etag
                    /\ Fail(p, "CloudFront.SetCertificate", <<distId, loc[p].certId>>, err)
               ELSE /\ etag' = [etag EXCEPT ![p] = TRUE]
                    /\ Advance(p, op[p], "SetCertificate.UpdateDistribution",
                               [loc[p] EXCEPT !.config = Config(dists[distId])], trace[p])

\* An UpdateDistribution sent without IfMatch: the ETag is not looked at.
WriteErr_noIfMatch(p, distId, fail) ==
    IF fail THEN "transient"
    ELSE IF Missing(distId) THEN "NoSuchDistribution"
    ELSE "nil"

\* What UpdateDistribution and DeleteDistribution answer to a request of thread p.
WriteErr(p, distId, fail) ==
    IF fail THEN "transient"
    ELSE IF Missing(distId) THEN "NoSuchDistribution"
    ELSE IF ~etag[p] THEN "PreconditionFailed"
    ELSE "nil"

\* SetCertificate: UpdateDistribution with IfMatch sends the config that was read,
\* with the viewer certificate set to certId.
SetCertificate_UpdateDistribution(p) ==
    /\ pc[p] = "SetCertificate.UpdateDistribution"
    /\ UNCHANGED <<routes, seen, certs, iam, issued, now>>
    /\ LET distId == loc[p].r.DistId
           arg == <<distId, loc[p].certId>>
       IN \E fail \in BOOLEAN :
            LET err == WriteErr(p, distId, fail)
            IN IF err /= "nil"
               THEN /\ UNCHANGED dists
                    /\ etag' = [etag EXCEPT ![p] = FALSE]
                    /\ Fail(p, "CloudFront.SetCertificate", arg, err)
               ELSE /\ dists' = [dists EXCEPT ![distId] =
                                  Configured(@, [loc[p].config EXCEPT
                                                    !.IAMCertificateId = loc[p].certId])]
                    /\ etag' = NewETag(distId)
                    /\ Deploy(p, "CloudFront.SetCertificate",
                              [loc[p] EXCEPT !.config = NoConfig],
                              trace[p] \o Call("CloudFront.SetCertificate", arg, "nil"))

\* return m.Iam.RenameCertificate(prev, next)
deployCertificate_RenameCertificate(p) ==
    /\ pc[p] = "Iam.RenameCertificate"
    /\ UNCHANGED <<routes, seen, certs, dists, issued, now, etag>>
    /\ LET prev == StagingAlias(loc[p].r.DomainExternal)
           next == CanonicalAlias(loc[p].r.DomainExternal)
       IN \E fail \in BOOLEAN :
            LET err == IF fail THEN "transient" ELSE RenameErr(prev, next)
            IN IF err /= "nil"
               THEN /\ UNCHANGED iam
                    /\ Fail(p, "Iam.RenameCertificate", <<prev, next>>, err)
               ELSE /\ iam' = Renamed(prev, next)
                    /\ Deploy(p, "Iam.RenameCertificate", loc[p],
                              trace[p] \o Call("Iam.RenameCertificate", <<prev, next>>, "nil"))

\* updateProvisioning: m.DB.Create(&certRow)
updateProvisioning_DB_Create(p) ==
    /\ pc[p] = "updateProvisioning.DB.Create"
    /\ UNCHANGED <<routes, seen, dists, iam, issued, now, etag>>
    /\ LET certResource == loc[p].certResource
           row == [NoCertRow EXCEPT !.Domain = certResource.Domain,
                                    !.CertURL = certResource.CertURL,
                                    !.Certificate = certResource.Certificate,
                                    !.Expires = PEMExpiration(certResource.Certificate)]
       IN /\ certs' = SaveCert(certs, row)
          /\ Advance(p, op[p], "updateProvisioning.DB.Save",
                     [loc[p] EXCEPT !.certRow = [row EXCEPT !.ID = Len(certs')]],
                     trace[p] \o Call("DB.Create", "certificates", "nil"))

\* updateProvisioning: r.State = Provisioned; r.Certificate = certRow; m.DB.Save(&r)
updateProvisioning_DB_Save(p) ==
    /\ pc[p] = "updateProvisioning.DB.Save"
    /\ UNCHANGED <<dists, iam, issued, now, etag>>
    /\ LET route == [loc[p].r EXCEPT !.State = Provisioned,
                                     !.Certificate = loc[p].certRow]
       IN /\ routes' = SaveRoute(routes, route)
          /\ seen' = Handed(routes', {})
          /\ certs' = SaveAssociation(certs, route)
          /\ Return(p, op[p], loc[p].r, "nil", NoRoute,
                    trace[p] \o Call("DB.Save", "routes", "nil"))

\* ---------------------------------------------------------------- Disable
\* Disable: CloudFront.Disable reads the config and its ETag.
Disable(p, route) ==
    /\ Idle(p)
    /\ route \in seen
    /\ UNCHANGED <<routes, seen, certs, dists, iam, issued, now>>
    /\ \E fail \in BOOLEAN :
         LET err == IF fail THEN "transient"
                    ELSE IF Missing(route.DistId) THEN "NoSuchDistribution" ELSE "nil"
         IN IF err /= "nil"
            THEN /\ UNCHANGED etag
                 /\ Return(p, "Disable", route, err, NoRoute,
                           Call("CloudFront.Disable", route.DistId, err))
            ELSE /\ etag' = [etag EXCEPT ![p] = TRUE]
                 /\ Advance(p, "Disable", "Disable.UpdateDistribution",
                            [NoLocals EXCEPT !.r = route,
                                             !.config = Config(dists[route.DistId])], <<>>)

\* CloudFront.Disable: UpdateDistribution with IfMatch sends the config that was
\* read, with Enabled = false.
Disable_UpdateDistribution(p) ==
    /\ pc[p] = "Disable.UpdateDistribution"
    /\ UNCHANGED <<routes, seen, certs, iam, issued, now>>
    /\ LET distId == loc[p].r.DistId
       IN \E fail \in BOOLEAN :
            LET err == WriteErr(p, distId, fail)
            IN IF err /= "nil"
               THEN /\ UNCHANGED dists
                    /\ etag' = [etag EXCEPT ![p] = FALSE]
                    /\ Fail(p, "CloudFront.Disable", distId, err)
               ELSE /\ dists' = [dists EXCEPT ![distId] =
                                  Configured(@, [loc[p].config EXCEPT !.Enabled = FALSE])]
                    /\ etag' = NewETag(distId)
                    /\ Advance(p, op[p], "Disable.DB.Save",
                               [loc[p] EXCEPT !.config = NoConfig],
                               trace[p] \o Call("CloudFront.Disable", distId, "nil"))

\* Disable: r.State = Deprovisioning; m.DB.Save(&r)
Disable_DB_Save(p) ==
    /\ pc[p] = "Disable.DB.Save"
    /\ UNCHANGED <<dists, iam, issued, now, etag>>
    /\ LET route == [loc[p].r EXCEPT !.State = Deprovisioning]
       IN /\ routes' = SaveRoute(routes, route)
          /\ seen' = Handed(routes', {})
          /\ certs' = SaveAssociation(certs, route)
          /\ Return(p, op[p], loc[p].r, "nil", NoRoute,
                    trace[p] \o Call("DB.Save", "routes", "nil"))

\* --------------------------------------------------- updateDeprovisioning
\* A CloudFront.Delete that sends the delete request whatever the Status is.
Update_updateDeprovisioning_anyStatus(p, route) ==
    /\ Idle(p)
    /\ route \in seen
    /\ Dispatch(route.State) = "updateDeprovisioning"
    /\ UNCHANGED <<routes, seen, certs, dists, iam, issued, now>>
    /\ \E fail \in BOOLEAN :
         LET err == IF fail THEN "transient"
                    ELSE IF Missing(route.DistId) THEN "NoSuchDistribution" ELSE "nil"
         IN IF err /= "nil"
            THEN /\ UNCHANGED etag
                 /\ Return(p, "Update", route, err, NoRoute,
                           Call("CloudFront.Delete", <<route.DistId, FALSE>>, err))
            ELSE /\ etag' = [etag EXCEPT ![p] = TRUE]
                 /\ Advance(p, "Update", "Delete.DeleteDistribution",
                            [NoLocals EXCEPT !.r = route], <<>>)

\* Update on a Deprovisioning Route: CloudFront.Delete reads the distribution.
Update_updateDeprovisioning(p, route) ==
    /\ Idle(p)
    /\ route \in seen
    /\ Dispatch(route.State) = "updateDeprovisioning"
    /\ UNCHANGED <<routes, seen, certs, dists, iam, issued, now>>
    /\ \E fail \in BOOLEAN :
         LET err == IF fail THEN "transient"
                    ELSE IF Missing(route.DistId) THEN "NoSuchDistribution" ELSE "nil"
         IN IF err /= "nil"
            THEN /\ UNCHANGED etag
                 /\ Return(p, "Update", route, err, NoRoute,
                           Call("CloudFront.Delete", <<route.DistId, FALSE>>, err))
            ELSE IF dists[route.DistId].Status /= "Deployed"
            THEN /\ UNCHANGED etag
                 /\ Return(p, "Update", route, "nil", NoRoute,
                           Call("CloudFront.Delete", <<route.DistId, FALSE>>, "nil"))
            ELSE /\ etag' = [etag EXCEPT ![p] = TRUE]
                 /\ Advance(p, "Update", "Delete.DeleteDistribution",
                            [NoLocals EXCEPT !.r = route], <<>>)

\* CloudFront.Delete: DeleteDistribution with IfMatch; CloudFront deletes only
\* a distribution that is disabled.
Delete_DeleteDistribution(p) ==
    /\ pc[p] = "Delete.DeleteDistribution"
    /\ UNCHANGED <<routes, seen, certs, iam, issued, now>>
    /\ LET distId == loc[p].r.DistId
       IN \E fail \in BOOLEAN :
            LET err == IF WriteErr(p, distId, fail) /= "nil" THEN WriteErr(p, distId, fail)
                       ELSE IF dists[distId].Enabled THEN "DistributionNotDisabled"
                       ELSE "nil"
            IN IF err /= "nil"
               THEN /\ UNCHANGED dists
                    /\ etag' = [etag EXCEPT ![p] = FALSE]
                    /\ Fail(p, "CloudFront.Delete", <<distId, FALSE>>, err)
               ELSE /\ dists' = [dists EXCEPT ![distId].Deleted = TRUE]
                    /\ etag' = NewETag(distId)
                    /\ Advance(p, op[p], "Iam.DeleteCertificate", loc[p],
                               trace[p] \o Call("CloudFront.Delete", <<distId, TRUE>>, "nil"))

\* An updateDeprovisioning that goes on to the Save whatever DeleteCertificate said.
updateDeprovisioning_DeleteCertificate_unchecked(p) ==
    /\ pc[p] = "Iam.DeleteCertificate"
    /\ UNCHANGED <<routes, seen, certs, dists, issued, now, etag>>
    /\ LET alias == CanonicalAlias(loc[p].r.DomainExternal)
       IN \E fail \in BOOLEAN :
            LET err == IF fail THEN "transient" ELSE DeleteErr(alias)
            IN /\ iam' = IF err = "nil" THEN Deleted(alias) ELSE iam
               /\ Advance(p, op[p], "updateDeprovisioning.DB.Save", loc[p],
                          trace[p] \o Call("Iam.DeleteCertificate", alias, err))

\* updateDeprovisioning: m.Iam.DeleteCertificate("cdn-route-<domain>", false)
updateDeprovisioning_DeleteCertificate(p) ==
    /\ pc[p] = "Iam.DeleteCertificate"
    /\ UNCHANGED <<routes, seen, certs, dists, issued, now, etag>>
    /\ LET alias == CanonicalAlias(loc[p].r.DomainExternal)
       IN \E fail \in BOOLEAN :
            LET err == IF fail THEN "transient" ELSE DeleteErr(alias)
            IN IF err /= "nil"
               THEN /\ UNCHANGED iam
                    /\ Fail(p, "Iam.DeleteCertificate", alias, err)
               ELSE /\ iam' = Deleted(alias)
                    /\ Advance(p, op[p], "updateDeprovisioning.DB.Save", loc[p],
                               trace[p] \o Call("Iam.DeleteCertificate", alias, "nil"))

\* updateDeprovisioning: r.State = Deprovisioned; m.DB.Save(&r)
updateDeprovisioning_DB_Save(p) ==
    /\ pc[p] = "updateDeprovisioning.DB.Save"
    /\ UNCHANGED <<dists, iam, issued, now, etag>>
    /\ LET route == [loc[p].r EXCEPT !.State = Deprovisioned]
       IN /\ routes' = SaveRoute(routes, route)
          /\ seen' = Handed(routes', {})
          /\ certs' = SaveAssociation(certs, route)
          /\ Return(p, op[p], loc[p].r, "nil", NoRoute,
                    trace[p] \o Call("DB.Save", "routes", "nil"))

\* ---------------------------------------------------- Distribution.Update
\* fillDistributionConfig on a config that was read: Enabled and the aliases are
\* set, the viewer certificate is left as it was read.
fillDistributionConfig(config, domains) ==
    [config EXCEPT !.Enabled = TRUE, !.Aliases = domains]

\* Distribution.Update, called by the holder of a Route with the domains asked
\* for: GetDistributionConfig hands out the config and its ETag.
Distribution_Update(p, route, domains) ==
    /\ Idle(p)
    /\ route \in seen
    /\ UNCHANGED <<routes, seen, certs, dists, iam, issued, now>>
    /\ \E fail \in BOOLEAN :
         LET err == IF fail THEN "transient"
                    ELSE IF Missing(route.DistId) THEN "NoSuchDistribution" ELSE "nil"
         IN IF err /= "nil"
            THEN /\ UNCHANGED etag
                 /\ Return(p, "CloudFront.Update", route, err, NoRoute,
                           Call("CloudFront.Update", <<route.DistId, domains>>, err))
            ELSE /\ etag' = [etag EXCEPT ![p] = TRUE]
                 /\ Advance(p, "CloudFront.Update", "Update.UpdateDistribution",
                            [NoLocals EXCEPT
                                !.r = route,
                                !.config = fillDistributionConfig(
                                              Config(dists[route.DistId]), domains)],
                            <<>>)

\* Distribution.Update: UpdateDistribution with IfMatch sends the filled config;
\* CloudFront refuses an alias that another live distribution serves.
Distribution_Update_UpdateDistribution(p) ==
    /\ pc[p] = "Update.UpdateDistribution"
    /\ UNCHANGED <<routes, seen, certs, iam, issued, now>>
    /\ LET distId == loc[p].r.DistId
           arg == <<distId, loc[p].config.Aliases>>
           taken == \E d \in 1..Len(dists) :
                       /\ d /= distId /\ ~dists[d].Deleted
                       /\ SeqToSet(dists[d].Aliases) \cap SeqToSet(loc[p].config.Aliases) /= {}
       IN \E fail \in BOOLEAN :
            LET err == IF WriteErr(p, distId, fail) /= "nil" THEN WriteErr(p, distId, fail)
                       ELSE IF taken THEN "CNAMEAlreadyExists"
                       ELSE "nil"
            IN IF err /= "nil"
               THEN /\ UNCHANGED dists
                    /\ etag' = [etag EXCEPT ![p] = FALSE]
                    /\ Fail(p, "CloudFront.Update", arg, err)
               ELSE /\ dists' = [dists EXCEPT ![distId] = Configured(@, loc[p].config)]
                    /\ etag' = NewETag(distId)
                    /\ Return(p, op[p], loc[p].r, "nil", NoRoute,
                              trace[p] \o Call("CloudFront.Update", arg, "nil"))

\* ------------------------------------------------------------------ Renew
\* m.DB.Model(&r).Related(&certRow, "Certificate"): a certificates row of the
\* Route (no ORDER BY: any of them), or the zero row when there is none.
Related(r) ==
    IF CertsOf(r.ID) = {} THEN {NoCertRow} ELSE {certs[k] : k \in CertsOf(r.ID)}

\* Renew, up to and including the load of the certificate row.
RenewLoad(p, o, route, todo, tr) ==
    \E row \in Related(route) :
        Advance(p, o, "Acme.RenewCertificate",
                [NoLocals EXCEPT !.r = route, !.certRow = row, !.routes = todo], tr)

\* Renew called by a caller that holds a Route.
Renew(p, route) ==
    /\ Idle(p)
    /\ route \in seen
    /\ UNCHANGED <<routes, seen, certs, dists, iam, issued, now, etag>>
    /\ RenewLoad(p, "Renew", route, <<>>, <<>>)

\* Renew called by the loop of RenewAll.
Renew_DB_Related(p) ==
    /\ pc[p] = "Renew.DB.Related"
    /\ UNCHANGED <<routes, seen, certs, dists, iam, issued, now, etag>>
    /\ RenewLoad(p, op[p], loc[p].r, loc[p].routes, trace[p])

\* Renew: m.Acme.RenewCertificate(certRow.Resource()); the ACME client cannot
\* renew from a PEM it cannot parse (such as the empty one of the zero row).
Renew_RenewCertificate(p) ==
    /\ pc[p] = "Acme.RenewCertificate"
    /\ UNCHANGED <<routes, seen, certs, dists, iam, now, etag>>
    /\ LET resource == Resource(loc[p].certRow)
       IN \/ /\ UNCHANGED issued
             /\ Fail(p, "Acme.RenewCertificate", resource.CertURL,
                     IF resource.Certificate.wellFormed THEN "transient"
                     ELSE "malformed PEM")
          \/ /\ resource.Certificate.wellFormed
             /\ issued < MaxCerts
             /\ issued' = issued + 1
             /\ \E lifetime \in Lifetimes, wellFormed \in BOOLEAN :
                  Advance(p, op[p], "Iam.UploadCertificate",
                          [loc[p] EXCEPT !.certResource =
                               Issue(resource.Domain, lifetime, wellFormed)],
                          trace[p] \o Call("Acme.RenewCertificate", resource.CertURL, "nil"))

\* Renew: the row is rewritten with the renewed resource; m.DB.Save(&certRow)
Renew_DB_Save(p) ==
    /\ pc[p] = "Renew.DB.Save"
    /\ UNCHANGED <<routes, seen, dists, iam, issued, now, etag>>
    /\ LET certResource == loc[p].certResource
           row == [loc[p].certRow EXCEPT !.Domain = certResource.Domain,
                                         !.CertURL = certResource.CertURL,
                                         !.Certificate = certResource.Certificate,
                                         !.Expires = PEMExpiration(certResource.Certificate)]
       IN /\ certs' = SaveCert(certs, row)
          /\ Leave(p, "nil", trace[p] \o Call("DB.Save", "certificates", "nil"))

\* --------------------------------------------------------------- RenewAll
\* The rows of "routes join certificates" that RenewAll selects: a Route is
\* listed once for every certificates row it joins with.
Selected ==
    { kc \in (1..Len(routes)) \X (1..Len(certs)) :
         /\ routes[kc[1]].State = Provisioned
         /\ certs[kc[2]].RouteId = kc[1]
         /\ certs[kc[2]].Expires < now + RenewWindow }

\* The orders in which the database may return a set of rows.
Orders(S) ==
    { s \in [1..Cardinality(S) -> S] : \A i, j \in 1..Cardinality(S) : s[i] = s[j] => i = j }

\* RenewAll: the query, then Renew on the first Route (if any).
RenewAll(p) ==
    /\ Idle(p)
    /\ UNCHANGED <<routes, seen, certs, dists, iam, issued, now, etag>>
    /\ \E order \in Orders(Selected) :
         LET found == [i \in 1..Len(order) |->
                          [routes[order[i][1]] EXCEPT !.Certificate = certs[order[i][2]]]]
             find == Call("DB.Find", [i \in 1..Len(found) |-> found[i].ID], "nil")
         IN IF found = <<>>
            THEN Return(p, "RenewAll", NoRoute, "nil", NoRoute, find)
            ELSE Advance(p, "RenewAll", "Renew.DB.Related",
                         [NoLocals EXCEPT !.r = Head(found), !.routes = Tail(found)], find)

\* ------------------------------------------------------------------- Next
\* What the threads do once a caller is in.
Steps(p) ==
    \/ Create_DB_Create(p)
    \/ provisionCert_ObtainCertificate(p)
    \/ deployCertificate_UploadCertificate(p)
    \/ SetCertificate_GetDistributionConfig(p)
    \/ SetCertificate_UpdateDistribution(p)
    \/ deployCertificate_RenameCertificate(p)
    \/ updateProvisioning_DB_Create(p)
    \/ updateProvisioning_DB_Save(p)
    \/ Delete_DeleteDistribution(p)
    \/ updateDeprovisioning_DeleteCertificate(p)
    \/ updateDeprovisioning_DB_Save(p)
    \/ Disable_UpdateDistribution(p)
    \/ Disable_DB_Save(p)
    \/ Renew_DB_Related(p)
    \/ Renew_RenewCertificate(p)
    \/ Renew_DB_Save(p)

\* The calls on a Route a caller holds.
Calls(p, route) ==
    \/ Update_default(p, route)
    \/ Update_updateProvisioning(p, route)
    \/ Update_updateDeprovisioning(p, route)
    \/ Disable(p, route)
    \/ Renew(p, route)

Next ==
    \/ \E p \in Procs, i \in InstanceIds, d \in TenantDomains, o \in Origins, h \in Paths :
          Len(dists) < MaxRoutes /\ Create(p, i, d, o, h)
    \/ \E p \in Procs, i \in InstanceIds : Get(p, i)
    \/ \E p \in Procs, route \in seen : Calls(p, route)
    \/ \E p \in Procs : RenewAll(p)
    \/ \E p \in Procs : Steps(p)
    \/ \E d \in 1..MaxDists : Propagate(d)

Spec == Init /\ [][Next]_vars

\* The broker's provisioning endpoint alone: tenants ask for instances, under
\* any id and domain, and poll them.
Tenants == {"inst-1", "inst-2"}

NextCreate ==
    \/ \E p \in Procs, i \in Tenants, d \in DomainExts, o \in Origins, h \in Paths :
          Create(p, i, d, o, h)
    \/ \E p \in Procs : Create_DB_Create(p)
    \/ \E p \in Procs, i \in Tenants : Get(p, i)
    \/ \E d \in 1..MaxDists : Propagate(d)

SpecCreate == Init /\ [][NextCreate]_vars

\* ================================================================= claims
\* Thread p is inside Update, Renew, Disable or the sweep of RenewAll.
InFlight(p) == pc[p] /= "idle" /\ op[p] \in {"Update", "Renew", "Disable", "RenewAll"}

\* The calls of tr made under the name `name`.
CallsOf(tr, name) == {i \in 1..Len(tr) : tr[i].call = name}

\* tr has a call under `name` that ended with err.
Ended(tr, name, err) == \E i \in CallsOf(tr, name) : tr[i].err = err

\* tr has a call to one of the collaborators in names.
Touches(tr, names) == \E i \in 1..Len(tr) : tr[i].call \in names

AcmeCalls == {"Acme.ObtainCertificate", "Acme.RenewCertificate"}
IamCalls == {"Iam.UploadCertificate", "Iam.RenameCertificate", "Iam.DeleteCertificate"}
StoreCalls == {"DB.Create", "DB.Save"}

\* C1: at any moment at most one invocation of Update, Renew or Disable (or of
\* the Renew that RenewAll runs) is in flight for a given instance_id.
C1_OneInFlightPerInstance ==
    \A p, q \in Procs :
        (p /= q /\ InFlight(p) /\ InFlight(q))
            => loc[p].r.InstanceId /= loc[q].r.InstanceId

\* C2: a Route never regresses: no step takes the stored state of a Route to a
\* state earlier in Provisioning, Provisioned, Deprovisioning, Deprovisioned.
C2_NeverRegresses ==
    [][\A k \in 1..Len(routes) :
          StateRank(routes'[k].State) >= StateRank(routes[k].State)]_vars

\* C3: every Route stored as Provisioned has exactly one certificates row, and
\* that row's expires lies in the future.
C3_ProvisionedHasOneCertificate ==
    \A k \in 1..Len(routes) :
        routes[k].State = Provisioned
            => /\ Cardinality(CertsOf(k)) = 1
               /\ \A c \in CertsOf(k) : certs[c].Expires > now

\* C4: when Create returns without error, Get on the same instance_id returns
\* the Route Create returned, in state Provisioning, with dist_id and
\* domain_internal set.
C4_CreateThenGet ==
    (done.op = "Create" /\ done.err = "nil")
        => LET got == GetRoute(done.arg.InstanceId)
           IN /\ GetErr(done.arg.InstanceId) = "nil"
              /\ got.DistId = done.route.DistId
              /\ got.DomainInternal = done.route.DomainInternal
              /\ got.DomainExternal = done.route.DomainExternal
              /\ got.Origin = done.route.Origin
              /\ got.Path = done.route.Path
              /\ got.State = Provisioning
              /\ got.DistId /= 0
              /\ got.DomainInternal /= 0

\* C5: a Create whose INSERT the Store rejects as a duplicate instance_id
\* returns an error, and no two rows of routes have the same instance_id.
C5_DuplicateSurfaces ==
    /\ (done.op = "Create" /\ Ended(done.trace, "DB.Create", "conflict"))
           => done.err /= "nil"
    /\ \A j, k \in 1..Len(routes) :
           routes[j].InstanceId = routes[k].InstanceId => j = k

\* C6: an Update called with a Provisioned or Deprovisioned Route returns nil,
\* has called no collaborator, and its step changes neither the Store nor the
\* CDN, IAM or ACME.
C6_UpdateNoOp ==
    [][(done'.op = "Update" /\ done'.arg.State \in {Provisioned, Deprovisioned})
          => /\ done'.err = "nil"
             /\ done'.trace = <<>>
             /\ UNCHANGED <<routes, certs, dists, iam, issued>>]_vars

C6_Witness ==
    /\ done.op = "Update" /\ done.arg.State = Provisioned
    /\ done.err = "nil"
    /\ routes /= <<>> /\ certs /= <<>>

\* The probes of tr report a gate that fails: neither DNS check passed, or
\* checkDistribution did not.
GateFailed(tr) ==
    \/ Ended(tr, "checkCNAME", "nil") /\ Ended(tr, "checkHosts", "nil")
       /\ \A i \in CallsOf(tr, "checkCNAME") \cup CallsOf(tr, "checkHosts") : ~tr[i].arg
    \/ \E i \in CallsOf(tr, "checkDistribution") : ~tr[i].arg

\* C7: an Update on a Provisioning Route whose gate fails returns nil, has made
\* no ACME, IAM or Store call, and changes neither the Store nor the CDN, IAM or
\* ACME: the next Update starts from the state this one started from.
C7_GateFailsNoEffect ==
    [][(done'.op = "Update" /\ done'.arg.State = Provisioning /\ GateFailed(done'.trace))
          => /\ done'.err = "nil"
             /\ ~Touches(done'.trace, AcmeCalls \cup IamCalls \cup StoreCalls)
             /\ UNCHANGED <<routes, certs, dists, iam, issued>>]_vars

C7_Witness ==
    /\ done.op = "Update" /\ done.arg.State = Provisioning
    /\ \E i \in CallsOf(done.trace, "checkDistribution") : ~done.trace[i].arg
    /\ done.err = "nil"

\* The deploy calls of tr come in the order upload, bind, rename, each right
\* after the success of the one before: SetCertificate binds the id the upload
\* under the staging alias returned, RenameCertificate moves that staging alias
\* to the canonical one.
DeployOrder(tr) ==
    \A i \in 1..Len(tr) :
       /\ tr[i].call = "Iam.UploadCertificate"
             => \E d \in DomainExts : tr[i].arg[1] = StagingAlias(d)
       /\ tr[i].call = "CloudFront.SetCertificate"
             => /\ i > 1
                /\ tr[i-1].call = "Iam.UploadCertificate" /\ tr[i-1].err = "nil"
                /\ tr[i].arg[2] = tr[i-1].arg[2]
       /\ tr[i].call = "Iam.RenameCertificate"
             => /\ i > 2
                /\ tr[i-1].call = "CloudFront.SetCertificate" /\ tr[i-1].err = "nil"
                /\ \E d \in DomainExts :
                      /\ tr[i-2].arg[1] = StagingAlias(d)
                      /\ tr[i].arg = <<StagingAlias(d), CanonicalAlias(d)>>

\* The invocation that returned deployed a certificate and reported success.
DeploySucceeded ==
    /\ done.err = "nil"
    /\ \/ done.op = "Renew"
       \/ done.op = "Update" /\ done.arg.State = Provisioning
          /\ Touches(done.trace, StoreCalls)

\* C8: the deploy calls of every invocation, running or returned, are in the
\* order upload (staging alias), SetCertificate (the uploaded id), rename (to
\* the canonical alias), none after a failed one; a provisioning or Renew that
\* succeeded made all three.
C8_DeployOrder ==
    /\ \A p \in Procs : DeployOrder(trace[p])
    /\ DeployOrder(done.trace)
    /\ DeploySucceeded
          => /\ Ended(done.trace, "Iam.UploadCertificate", "nil")
             /\ Ended(done.trace, "CloudFront.SetCertificate", "nil")
             /\ Ended(done.trace, "Iam.RenameCertificate", "nil")

C8_Witness ==
    /\ DeploySucceeded /\ done.op = "Renew"
    /\ Ended(done.trace, "Iam.RenameCertificate", "nil")

\* C9: a deploy sequence run again after an earlier one was cut short does not
\* fail on what that one left behind: with no other invocation running, an
\* Update or Renew never ends on an upload refused because the staging alias
\* is taken.
C9_DeployRerunSucceeds ==
    (done.op \in {"Update", "Renew"} /\ \A q \in Procs : pc[q] = "idle")
        => ~Ended(done.trace, "Iam.UploadCertificate", "EntityAlreadyExists")

\* The steps of the Provisioning to Provisioned transition.
ProvisionSteps ==
    {"Acme.ObtainCertificate", "Iam.UploadCertificate", "CloudFront.SetCertificate",
     "Iam.RenameCertificate", "acme.GetPEMCertExpiration"}

\* C10: an Update on a Provisioning Route in which a step of the transition
\* failed returns that step's error, has made no Store call, and changes no row
\* of routes or certificates.
C10_FailedStepAborts ==
    [][\A i \in 1..Len(done'.trace) :
          (/\ done'.op = "Update" /\ done'.arg.State = Provisioning
           /\ done'.trace[i].call \in ProvisionSteps
           /\ done'.trace[i].err /= "nil")
             => /\ done'.err = done'.trace[i].err
                /\ ~Touches(done'.trace, StoreCalls)
                /\ UNCHANGED <<routes, certs>>]_vars

C10_Witness ==
    /\ done.op = "Update" /\ done.arg.State = Provisioning
    /\ Ended(done.trace, "acme.GetPEMCertExpiration", "malformed PEM")
    /\ done.err = "malformed PEM"
    /\ GetRoute(done.arg.InstanceId).State = Provisioning

\* The provisioning endpoint and the deprovisioning request: tenants ask for
\* instances and call Disable on the Routes they were handed.
NextDisable ==
    \/ NextCreate
    \/ \E p \in Procs, route \in seen : Disable(p, route)
    \/ \E p \in Procs : Disable_UpdateDistribution(p)
    \/ \E p \in Procs : Disable_DB_Save(p)

SpecDisable == Init /\ [][NextDisable]_vars

\* C11: a Disable returns the error of CloudFront.Disable when that call
\* failed, and then its step leaves routes unchanged; a Disable that returns
\* nil called CloudFront.Disable with success and the Route it was called with
\* is now stored, in state Deprovisioning.
C11_DisablePersists ==
    [][done'.op = "Disable"
          => IF done'.err = "nil"
             THEN /\ Ended(done'.trace, "CloudFront.Disable", "nil")
                  /\ done'.arg.ID \in 1..Len(routes')
                  /\ routes'[done'.arg.ID] =
                         [RouteRow(done'.arg) EXCEPT !.State = Deprovisioning]
             ELSE /\ Ended(done'.trace, "CloudFront.Disable", done'.err)
                  /\ ~Touches(done'.trace, StoreCalls)
                  /\ UNCHANGED routes]_vars

\* The steps of Renew that can fail.
RenewSteps ==
    {"Acme.RenewCertificate", "Iam.UploadCertificate", "CloudFront.SetCertificate",
     "Iam.RenameCertificate", "acme.GetPEMCertExpiration"}

\* C12: a Renew in which a step failed returns that step's error, has made no
\* Store call, and its step leaves every certificates row as it was.
C12_RenewFailureKeepsRow ==
    [][\A i \in 1..Len(done'.trace) :
          (/\ done'.op = "Renew"
           /\ done'.trace[i].call \in RenewSteps
           /\ done'.trace[i].err /= "nil")
             => /\ done'.err = done'.trace[i].err
                /\ ~Touches(done'.trace, StoreCalls)
                /\ UNCHANGED <<routes, certs>>]_vars

C12_Witness ==
    /\ done.op = "Renew" /\ done.err = "transient"
    /\ Ended(done.trace, "Iam.RenameCertificate", "transient")
    /\ \E c \in CertsOf(done.arg.ID) : certs[c].CertURL = 1

\* C13: the Save that ends a successful Renew rewrites the certificates row
\* Renew loaded for the Route, in place: same primary key and route_id, no row
\* added, no other row touched; the row holds the renewed domain, cert_url and
\* PEM, and expires is the not-after of that PEM.
C13_RenewRewritesInPlace ==
    [][\A p \in Procs :
          (pc[p] = "Renew.DB.Save" /\ pc'[p] /= "Renew.DB.Save")
             => LET id == loc[p].certRow.ID
                    renewed == loc[p].certResource
                IN /\ id \in CertsOf(loc[p].r.ID)
                   /\ Len(certs') = Len(certs)
                   /\ \A j \in 1..Len(certs) : j /= id => certs'[j] = certs[j]
                   /\ certs'[id].ID = id
                   /\ certs'[id].RouteId = loc[p].r.ID
                   /\ certs'[id].Domain = renewed.Domain
                   /\ certs'[id].CertURL = renewed.CertURL
                   /\ certs'[id].Certificate = renewed.Certificate
                   /\ renewed.Certificate.wellFormed
                   /\ certs'[id].Expires = renewed.Certificate.notAfter]_vars

C13_Witness ==
    /\ done.op = "Renew" /\ done.err = "nil"
    /\ Len(certs) = 1
    /\ certs[1].RouteId = done.arg.ID /\ certs[1].CertURL = 2
    /\ certs[1].Expires = certs[1].Certificate.notAfter

\* ------------------------------------------------------------ the sweep
\* The Store, CDN and IAM after two tenants were provisioned some time ago:
\* Route k has distribution k and one certificates row, issued before the
\* certificates this model counts; a tenant may have called Disable since.
OldSerial(k) == 100 + k
SweepDomain(k) == IF k = 1 THEN <<"a.example.com">> ELSE <<"b.example.com", "c.example.com">>
SweepInstance(k) == IF k = 1 THEN "inst-1" ELSE "inst-2"

SweepRoute(k, state) ==
    [NoRoute EXCEPT !.ID = k, !.InstanceId = SweepInstance(k), !.State = state,
                    !.DomainExternal = SweepDomain(k), !.DomainInternal = k,
                    !.DistId = k, !.Origin = "origin.app", !.Path = "/"]

SweepCert(k, expires) ==
    [ID |-> k, RouteId |-> k, Domain |-> Head(SweepDomain(k)), CertURL |-> OldSerial(k),
     Certificate |-> [serial |-> OldSerial(k), notAfter |-> expires, wellFormed |-> TRUE],
     Expires |-> expires]

SweepDist(k, state) ==
    [Status |-> "Deployed", Enabled |-> state = Provisioned,
     IAMCertificateId |-> OldSerial(k), Aliases |-> SweepDomain(k), Deleted |-> FALSE]

InitSweep ==
    /\ \E state \in [1..2 -> {Provisioned, Deprovisioning}],
          expires \in [1..2 -> {RenewWindow - 1, RenewWindow}] :
          /\ routes = [k \in 1..2 |-> SweepRoute(k, state[k])]
          /\ certs = [k \in 1..2 |-> SweepCert(k, expires[k])]
          /\ dists = [k \in 1..2 |-> SweepDist(k, state[k])]
    /\ iam = [a \in Aliases |->
                 IF a = CanonicalAlias(SweepDomain(1)) THEN OldSerial(1)
                 ELSE IF a = CanonicalAlias(SweepDomain(2)) THEN OldSerial(2)
                 ELSE 0]
    /\ issued = 0
    /\ now = 0
    /\ pc = [p \in Procs |-> "idle"]
    /\ op = [p \in Procs |-> ""]
    /\ loc = [p \in Procs |-> NoLocals]
    /\ etag = [p \in Procs |-> FALSE]
    /\ seen = SeqToSet(routes)
    /\ trace = [p \in Procs |-> <<>>]
    /\ done = NoReturn

\* The periodic driver calls RenewAll; nothing else is going on.
NextSweep ==
    \/ \E p \in Procs : RenewAll(p)
    \/ \E p \in Procs : Renew_DB_Related(p)
    \/ \E p \in Procs : Renew_RenewCertificate(p)
    \/ \E p \in Procs : deployCertificate_UploadCertificate(p)
    \/ \E p \in Procs : SetCertificate_GetDistributionConfig(p)
    \/ \E p \in Procs : SetCertificate_UpdateDistribution(p)
    \/ \E p \in Procs : deployCertificate_RenameCertificate(p)
    \/ \E p \in Procs : Renew_DB_Save(p)
    \/ \E d \in 1..MaxDists : Propagate(d)

SpecSweep == InitSweep /\ [][NextSweep]_vars

\* Route k matches the selection of the sweep: Provisioned, with a certificate
\* that expires before now + 30 days.
Qualifies(k) ==
    /\ routes[k].State = Provisioned
    /\ \E c \in CertsOf(k) : certs[c].Expires - now < RenewWindow

\* The calls thread p has made after the step, returned or not.
TraceAfter(p) == IF done'.proc = p THEN done'.trace ELSE trace'[p]

\* C14: the Routes the query of RenewAll finds, which are the Routes its loop
\* calls Renew on, hold every Route that is Provisioned with expires < now + 30
\* days exactly once, and no other Route.
C14_RenewAllSelection ==
    [][\A p \in Procs :
          (pc[p] = "idle" /\ CallsOf(TraceAfter(p), "DB.Find") /= {})
             => LET found == TraceAfter(p)[1].arg
                IN \A k \in 1..Len(routes) :
                      Cardinality({i \in 1..Len(found) : found[i] = k})
                          = IF Qualifies(k) THEN 1 ELSE 0]_vars

\* The Routes a sweep found, and the number of Renews it has started.
Found(tr) == tr[1].arg
Renews(tr) == Cardinality(CallsOf(tr, "Acme.RenewCertificate"))

\* The Routes of the sweep of thread p that Renew was not yet called on, the
\* one Renew is loading the row of included.
ToVisit(p) ==
    (IF pc[p] \in {"Renew.DB.Related", "Acme.RenewCertificate"}
     THEN <<loc[p].r.ID>> ELSE <<>>)
    \o [i \in 1..Len(loc[p].routes) |-> loc[p].routes[i].ID]

\* C15: whatever failed so far, a running sweep has called Renew on the first
\* Routes it found, one call each, and still holds all the others, in the
\* order found; a sweep that returned has called Renew on every Route it found.
C15_SweepIsolatesFailures ==
    /\ \A p \in Procs :
          (pc[p] /= "idle" /\ op[p] = "RenewAll")
             => /\ Renews(trace[p]) + Len(ToVisit(p)) = Len(Found(trace[p]))
                /\ \A i \in 1..Len(ToVisit(p)) :
                      ToVisit(p)[i] = Found(trace[p])[Renews(trace[p]) + i]
    /\ done.op = "RenewAll" => Renews(done.trace) = Len(Found(done.trace))

C15_Witness ==
    /\ done.op = "RenewAll"
    /\ Len(Found(done.trace)) = 2
    /\ \E i, j \in CallsOf(done.trace, "Acme.RenewCertificate") :
          /\ i < j
          /\ done.trace[i].err /= "nil"
          /\ done.trace[j].err = "nil"
    /\ Touches(done.trace, {"DB.Save"})

\* C16: a Route left in Deprovisioning by the invocations that have run so far,
\* with its certificate still in IAM, can still be taken to Deprovisioned by
\* the Updates to come: its distribution is still there for CloudFront.Delete
\* to find.  (Once the distribution is gone, every Update on the Route ends on
\* the error of CloudFront.Delete, before the IAM certificate is removed and
\* before Deprovisioned is saved: a removal that failed is never tried again.)
C16_DeprovisioningCompletes ==
    \A k \in 1..Len(routes) :
        (/\ routes[k].State = Deprovisioning
         /\ iam[CanonicalAlias(routes[k].DomainExternal)] /= 0
         /\ \A p \in Procs : pc[p] = "idle")
            => ~Missing(routes[k].DistId)

\* C17: an Update on a Deprovisioning Route to which CloudFront.Delete answered
\* (false, nil) returns nil having called nothing else, and changes neither the
\* Store nor IAM; and a row of routes becomes Deprovisioned only in the Save of
\* an Update on that Route whose calls were, in this order, CloudFront.Delete
\* answering (true, nil), Iam.DeleteCertificate of the alias of the Route's
\* domain_external answering nil, and that Save.
C17_TeardownOrder ==
    [][/\ (/\ done'.op = "Update" /\ done'.arg.State = Deprovisioning
           /\ \E i \in CallsOf(done'.trace, "CloudFront.Delete") :
                 done'.trace[i].err = "nil" /\ ~done'.trace[i].arg[2])
          => /\ done'.err = "nil"
             /\ Len(done'.trace) = 1
             /\ UNCHANGED <<routes, certs, iam>>
       /\ \A k \in 1..Len(routes') :
            (/\ routes'[k].State = Deprovisioned
             /\ k \in 1..Len(routes) => routes[k].State /= Deprovisioned)
               => /\ done'.op = "Update" /\ done'.arg.ID = k
                  /\ done'.arg.State = Deprovisioning
                  /\ done'.trace =
                        Call("CloudFront.Delete", <<done'.arg.DistId, TRUE>>, "nil")
                        \o Call("Iam.DeleteCertificate",
                                CanonicalAlias(done'.arg.DomainExternal), "nil")
                        \o Call("DB.Save", "routes", "nil")]_vars

C17_Witness ==
    /\ done.op = "Update" /\ done.arg.State = Deprovisioning /\ done.err = "nil"
    /\ Ended(done.trace, "Iam.DeleteCertificate", "nil")
    /\ routes[done.arg.ID].State = Deprovisioned
    /\ dists[done.arg.DistId].Deleted

\* What the probes recorded in tr reported.
Reported(tr, probe) == \E i \in CallsOf(tr, probe) : tr[i].arg

\* The distribution of Route r is there, Deployed and enabled.
DistributionReady(r) ==
    /\ r.DistId \in 1..Len(dists)
    /\ ~dists[r.DistId].Deleted
    /\ dists[r.DistId].Status = "Deployed"
    /\ dists[r.DistId].Enabled

\* C18: an Update on a Provisioning Route goes on to obtain a certificate
\* exactly when (checkCNAME or checkHosts) and checkDistribution reported true,
\* one passing DNS check being enough; and it goes on only from a state in
\* which the distribution is Deployed and enabled.
C18_Gate ==
    [][\A p \in Procs :
          (pc[p] = "idle" /\ TraceAfter(p) /= <<>> /\ TraceAfter(p)[1].call = "checkCNAME")
             => LET tr == TraceAfter(p)
                    passes == /\ Reported(tr, "checkCNAME") \/ Reported(tr, "checkHosts")
                              /\ Reported(tr, "checkDistribution")
                IN /\ (pc'[p] = "Acme.ObtainCertificate") = passes
                   /\ pc'[p] /= "Acme.ObtainCertificate" => pc'[p] = "idle"
                   /\ Reported(tr, "checkDistribution") => DistributionReady(loc'[p].r)
                   /\ pc'[p] = "Acme.ObtainCertificate"
                         => /\ loc'[p].r.State = Provisioning
                            /\ DistributionReady(loc'[p].r)]_vars

\* Update went on with the host check alone.
C18_Witness ==
    \E p \in Procs :
        /\ pc[p] = "Acme.ObtainCertificate"
        /\ ~Reported(trace[p], "checkCNAME")
        /\ Reported(trace[p], "checkHosts")
        /\ DistributionReady(loc[p].r)

\* The last call thread p has made after the step.
LastCall(p) == TraceAfter(p)[Len(TraceAfter(p))]

\* C19: CloudFront.Delete sends its delete request only for a distribution it
\* read as Deployed; it answers deleted = true exactly when that request was
\* accepted (the distribution is gone, no error), and false with the error
\* when it was rejected; for a distribution that is not Deployed it answers
\* (false, nil) in the step that read it, and the distribution stays.
C19_DeleteReportsDeleted ==
    [][\A p \in Procs :
          /\ (pc[p] = "idle" /\ pc'[p] = "Delete.DeleteDistribution")
                => /\ dists[loc'[p].r.DistId].Status = "Deployed"
                   /\ UNCHANGED dists
          /\ (pc[p] = "idle" /\ pc'[p] = "idle" /\ done'.proc = p
              /\ done'.trace /= <<>>
              /\ LastCall(p).call = "CloudFront.Delete")
                => /\ ~LastCall(p).arg[2]
                   /\ UNCHANGED dists
                   /\ LastCall(p).err = "nil"
                         => /\ ~Missing(LastCall(p).arg[1])
                            /\ dists[LastCall(p).arg[1]].Status /= "Deployed"
          /\ (pc[p] = "Delete.DeleteDistribution" /\ pc'[p] /= pc[p])
                => /\ LastCall(p).call = "CloudFront.Delete"
                   /\ LastCall(p).arg[1] = loc[p].r.DistId
                   /\ LastCall(p).arg[2] = (LastCall(p).err = "nil")
                   /\ IF LastCall(p).arg[2]
                      THEN /\ ~dists[loc[p].r.DistId].Deleted
                           /\ dists'[loc[p].r.DistId].Deleted
                      ELSE UNCHANGED dists]_vars

\* Delete answered (false, nil) for a distribution still being rolled out.
C19_Witness ==
    /\ done.op = "Update" /\ done.err = "nil"
    /\ Len(done.trace) = 1
    /\ done.trace[1] = [call |-> "CloudFront.Delete", arg |-> <<done.arg.DistId, FALSE>>,
                        err |-> "nil"]
    /\ dists[done.arg.DistId].Status = "InProgress"
    /\ ~dists[done.arg.DistId].Enabled

\* C20: when the rename of a deploy sequence has succeeded, for a first
\* provisioning and for a renewal alike, the staging alias of the domain is
\* free and the canonical alias names the certificate the sequence uploaded,
\* which is the one bound as the viewer certificate of the distribution.
C20_AliasesAfterDeploy ==
    [][\A p \in Procs :
          (/\ pc[p] = "Iam.RenameCertificate" /\ pc'[p] /= pc[p]
           /\ LastCall(p).call = "acme.GetPEMCertExpiration")
             => LET domain == loc[p].r.DomainExternal
                IN /\ iam'[StagingAlias(domain)] = 0
                   /\ loc[p].certId /= 0
                   /\ iam'[CanonicalAlias(domain)] = loc[p].certId
                   /\ dists'[loc[p].r.DistId].IAMCertificateId = loc[p].certId]_vars

\* A renewal deployed the second certificate over the first.
C20_Witness ==
    /\ done.op = "Renew" /\ done.err = "nil"
    /\ iam[StagingAlias(done.arg.DomainExternal)] = 0
    /\ iam[CanonicalAlias(done.arg.DomainExternal)] = 2
    /\ dists[done.arg.DistId].IAMCertificateId = 2

\* The blocking calls that issue or install a certificate: ACME obtain and
\* renew, the IAM upload, and the read and the write of CDN SetCertificate.
InstallSteps ==
    {"Acme.ObtainCertificate", "Acme.RenewCertificate", "Iam.UploadCertificate",
     "CloudFront.SetCertificate", "SetCertificate.UpdateDistribution"}

\* C21: no invocation makes an ACME obtain or renew, an IAM upload or a CDN
\* SetCertificate call for a Route that is stored as Deprovisioning or
\* Deprovisioned at the moment of the call, whoever handed it the Route.
C21_NoInstallAfterDisable ==
    [][\A p \in Procs :
          (/\ pc[p] \in InstallSteps /\ pc'[p] /= pc[p]
           /\ loc[p].r.ID \in 1..Len(routes))
             => routes[loc[p].r.ID].State \notin {Deprovisioning, Deprovisioned}]_vars

\* ---------------------------------------------------- the distribution
\* One tenant was provisioned some time ago.  The holders of its Route renew
\* its certificate, disable it and update its distribution, in any interleaving.
InitCDN ==
    /\ routes = <<SweepRoute(1, Provisioned)>>
    /\ certs = <<SweepCert(1, RenewWindow - 1)>>
    /\ dists = <<SweepDist(1, Provisioned)>>
    /\ iam = [a \in Aliases |->
                 IF a = CanonicalAlias(SweepDomain(1)) THEN OldSerial(1) ELSE 0]
    /\ issued = 0
    /\ now = 0
    /\ pc = [p \in Procs |-> "idle"]
    /\ op = [p \in Procs |-> ""]
    /\ loc = [p \in Procs |-> NoLocals]
    /\ etag = [p \in Procs |-> FALSE]
    /\ seen = SeqToSet(routes)
    /\ trace = [p \in Procs |-> <<>>]
    /\ done = NoReturn

NextCDN ==
    \/ \E p \in Procs, route \in seen : Renew(p, route)
    \/ \E p \in Procs : Renew_RenewCertificate(p)
    \/ \E p \in Procs : deployCertificate_UploadCertificate(p)
    \/ \E p \in Procs : SetCertificate_GetDistributionConfig(p)
    \/ \E p \in Procs : SetCertificate_UpdateDistribution(p)
    \/ \E p \in Procs : deployCertificate_RenameCertificate(p)
    \/ \E p \in Procs : Renew_DB_Save(p)
    \/ \E p \in Procs, route \in seen : Disable(p, route)
    \/ \E p \in Procs : Disable_UpdateDistribution(p)
    \/ \E p \in Procs : Disable_DB_Save(p)
    \/ \E p \in Procs, route \in seen, domains \in DomainExts :
          Distribution_Update(p, route, domains)
    \/ \E p \in Procs : Distribution_Update_UpdateDistribution(p)
    \/ \E d \in 1..MaxDists : Propagate(d)

SpecCDN == InitCDN /\ [][NextCDN]_vars

\* The steps that send UpdateDistribution.
ConfigWrites ==
    {"SetCertificate.UpdateDistribution", "Disable.UpdateDistribution",
     "Update.UpdateDistribution"}

\* What the call of thread p sets in the config; the rest it means to keep.
Intended(p, config) ==
    CASE pc[p] = "SetCertificate.UpdateDistribution" ->
            [config EXCEPT !.IAMCertificateId = loc[p].certId]
      [] pc[p] = "Disable.UpdateDistribution" -> [config EXCEPT !.Enabled = FALSE]
      [] pc[p] = "Update.UpdateDistribution" ->
            [config EXCEPT !.Enabled = TRUE, !.Aliases = loc[p].config.Aliases]

\* C22: when SetCertificate, Disable or Update sends UpdateDistribution, (a) a
\* writer whose ETag is stale (the config was written since it read it) gets an
\* error and the distribution is left as it is; (b) a write that is accepted
\* changes, in the config as it is at that moment, only what the call sets, so
\* nothing written by another call is undone; (c) in particular SetCertificate
\* never turns a disabled distribution back to enabled.
C22_NoLostUpdate ==
    [][\A p \in Procs :
          (pc[p] \in ConfigWrites /\ pc'[p] /= pc[p]) =>
             LET d == loc[p].r.DistId
             IN /\ ~etag[p] => /\ dists' = dists
                               /\ LastCall(p).err /= "nil"
                /\ dists' /= dists =>
                      Config(dists'[d]) = Intended(p, Config(dists[d]))
                /\ (pc[p] = "SetCertificate.UpdateDistribution" /\ ~dists[d].Enabled)
                      => ~dists'[d].Enabled]_vars

\* A Renew whose SetCertificate was refused for its stale ETag has returned,
\* the distribution is disabled and still has the certificate it had.
C22_Witness ==
    /\ done.op = "Renew"
    /\ done.trace /= <<>>
    /\ done.trace[Len(done.trace)].call = "CloudFront.SetCertificate"
    /\ done.trace[Len(done.trace)].err = "PreconditionFailed"
    /\ ~dists[done.arg.DistId].Enabled
    /\ dists[done.arg.DistId].IAMCertificateId = OldSerial(1)
====
